---- MODULE Spec2Model ----
(***************************************************************************)
(* Verification model of the 1INTRO weighted-pool quoting engine           *)
(* (jupiter-core/src/amms/one_intro_*.rs).                                 *)
(*                                                                         *)
(* The engine mixes exact u64/u128 integer arithmetic with IEEE-754 binary *)
(* 64 floating point.  TLC's integers are 32 bits wide, so unsigned        *)
(* integers are modelled as arbitrary-precision naturals (sequences of     *)
(* limbs) with the u64 / u128 widths checked explicitly, and f64 values    *)
(* are modelled as sign / 53-bit mantissa / exponent triples with every    *)
(* operation rounded to nearest, ties to even, as the hardware does.       *)
(***************************************************************************)
EXTENDS Integers, Sequences, FiniteSets, TLC

(***************************************************************************)
(* Arbitrary-precision naturals.  A natural is a little-endian sequence of *)
(* limbs in 0..Base-1 whose last limb is not 0; zero is the empty          *)
(* sequence.                                                               *)
(***************************************************************************)
Base == 2^15

RECURSIVE IntBitLen(_)
IntBitLen(i) == IF i = 0 THEN 0 ELSE 1 + IntBitLen(i \div 2)

LimbBits == IntBitLen(Base) - 1

\* the element of a singleton: The({body : x \in {value}}) is body with x
\* bound to value, which is computed once however often body mentions x
The(S) == CHOOSE x \in S : TRUE

Max(a, b) == IF a >= b THEN a ELSE b
Min(a, b) == IF a <= b THEN a ELSE b

RECURSIVE Norm(_)
Norm(s) ==
  IF s = <<>> THEN s
  ELSE IF s[Len(s)] = 0 THEN Norm(SubSeq(s, 1, Len(s) - 1)) ELSE s

RECURSIVE Big(_)
Big(i) == IF i = 0 THEN <<>> ELSE <<i % Base>> \o Big(i \div Base)

Zero == <<>>
One == <<1>>

\* -1, 0, 1 as a is less than, equal to, greater than b
BigCmp(a, b) ==
  IF Len(a) /= Len(b) THEN (IF Len(a) < Len(b) THEN -1 ELSE 1)
  ELSE IF a = b THEN 0
  ELSE IF \E j \in 1..Len(a) : a[j] < b[j] /\ \A k \in (j+1)..Len(a) : a[k] = b[k]
    THEN -1
  ELSE 1

BigLt(a, b) == BigCmp(a, b) < 0
BigLe(a, b) == BigCmp(a, b) <= 0
BigGt(a, b) == BigCmp(a, b) > 0
BigGe(a, b) == BigCmp(a, b) >= 0

Limb(a, i) == IF i <= Len(a) THEN a[i] ELSE 0

RECURSIVE AddFrom(_, _, _, _)
AddFrom(a, b, i, c) ==
  IF i > Len(a) /\ i > Len(b)
    THEN (IF c = 0 THEN <<>> ELSE <<c>>)
    ELSE LET x == Limb(a, i) + Limb(b, i) + c
         IN <<x % Base>> \o AddFrom(a, b, i + 1, x \div Base)

BigAdd(a, b) == AddFrom(a, b, 1, 0)

RECURSIVE SubFrom(_, _, _, _)
SubFrom(a, b, i, c) ==
  IF i > Len(a) THEN <<>>
  ELSE LET x == a[i] - Limb(b, i) - c
       IN IF x < 0 THEN <<x + Base>> \o SubFrom(a, b, i + 1, 1)
                   ELSE <<x>> \o SubFrom(a, b, i + 1, 0)

\* a - b for a >= b
BigSub(a, b) == Norm(SubFrom(a, b, 1, 0))

RECURSIVE MulSmallFrom(_, _, _, _)
MulSmallFrom(a, k, i, c) ==
  IF i > Len(a) THEN (IF c = 0 THEN <<>> ELSE <<c>>)
  ELSE LET x == a[i] * k + c
       IN <<x % Base>> \o MulSmallFrom(a, k, i + 1, x \div Base)

\* a * k for 0 <= k <= Base
MulSmall(a, k) == IF k = 0 THEN <<>> ELSE MulSmallFrom(a, k, 1, 0)

ShiftLimbs(a, n) == IF a = <<>> THEN a ELSE [i \in 1..n |-> 0] \o a

RECURSIVE MulFrom(_, _, _, _)
MulFrom(a, b, i, acc) ==
  IF i > Len(b) THEN acc
  ELSE MulFrom(a, b, i + 1, BigAdd(acc, ShiftLimbs(MulSmall(a, b[i]), i - 1)))

BigMul(a, b) == IF a = <<>> \/ b = <<>> THEN <<>> ELSE MulFrom(a, b, 1, <<>>)

\* quotient and remainder of a by a single limb k, 0 < k <= Base
RECURSIVE DivSmallFrom(_, _, _, _, _)
DivSmallFrom(a, k, i, r, q) ==
  IF i = 0 THEN [q |-> Norm(q), r |-> r]
  ELSE DivSmallFrom(a, k, i - 1, (r * Base + a[i]) % k, <<(r * Base + a[i]) \div k>> \o q)

DivSmall(a, k) == DivSmallFrom(a, k, Len(a), 0, <<>>)

BitLen(a) == IF a = <<>> THEN 0 ELSE LimbBits * (Len(a) - 1) + IntBitLen(a[Len(a)])

\* a * 2^k
ShL(a, k) == ShiftLimbs(MulSmall(a, 2^(k % LimbBits)), k \div LimbBits)

\* floor(a / 2^k)
ShR(a, k) ==
  IF k \div LimbBits >= Len(a) THEN <<>>
  ELSE DivSmall(SubSeq(a, k \div LimbBits + 1, Len(a)), 2^(k % LimbBits)).q

\* a mod 2^k is not zero
LowBitsSet(a, k) ==
  \/ \E i \in 1..Min(Len(a), k \div LimbBits) : a[i] /= 0
  \/ /\ k \div LimbBits < Len(a)
     /\ a[k \div LimbBits + 1] % (2^(k % LimbBits)) /= 0

IsOdd(a) == a /= <<>> /\ a[1] % 2 = 1

(***************************************************************************)
(* Long division (Knuth's algorithm D): the divisor is scaled so that its  *)
(* top limb is at least Base/2, each quotient limb is estimated from the   *)
(* top two limbs of the running remainder and corrected downwards.         *)
(***************************************************************************)
RECURSIVE FixDigit(_, _, _)
FixDigit(r, d, q) ==
  IF BigGt(MulSmall(d, q), r) THEN FixDigit(r, d, q - 1) ELSE q

QuotDigit(r, d) ==
  IF Len(r) < Len(d) THEN 0
  ELSE LET top == IF Len(r) > Len(d)
                    THEN r[Len(r)] * Base + r[Len(r) - 1]
                    ELSE r[Len(r)]
       IN FixDigit(r, d, Min(top \div d[Len(d)], Base - 1))

\* the limbs of n from the i-th down, brought down onto the remainder r
RECURSIVE LongDiv(_, _, _, _, _)
LongDiv(n, d, i, r, q) ==
  IF i = 0 THEN [q |-> Norm(q), r |-> r]
  ELSE The({The({LongDiv(n, d, i - 1, BigSub(r1, MulSmall(d, qd)), <<qd>> \o q) :
                   qd \in {QuotDigit(r1, d)}}) :
              r1 \in {Norm(<<n[i]>> \o r)}})

\* the division of n by d, both scaled by 2^k
ScaledDiv(n, d, k) ==
  The({[q |-> x.q, r |-> ShR(x.r, k)] : x \in {LongDiv(n, d, Len(n), <<>>, <<>>)}})

\* [q, r] with n = q * d + r and r < d, for d /= 0
BigDivMod(n, d) ==
  IF BigLt(n, d) THEN [q |-> <<>>, r |-> n]
  ELSE IF Len(d) = 1
    THEN The({[q |-> x.q, r |-> Big(x.r)] : x \in {DivSmall(n, d[1])}})
  ELSE The({ScaledDiv(ShL(n, k), ShL(d, k), k) : k \in {LimbBits - IntBitLen(d[Len(d)])}})

\* decimal groups of nine digits, most significant first: Dec(<<18, 446744073, 709551615>>)
RECURSIVE Dec(_)
Dec(g) ==
  IF g = <<>> THEN <<>>
  ELSE BigAdd(BigMul(Dec(SubSeq(g, 1, Len(g) - 1)), Big(1000000000)), Big(g[Len(g)]))

(***************************************************************************)
(* IEEE-754 binary64.  A float is [k, s, m, e]: k is "fin", "inf" or       *)
(* "nan", s the sign bit, and a finite non-zero value is                   *)
(* (-1)^s * m * 2^e with m a natural of exactly MantBits bits.  Zero has   *)
(* m = 0 and keeps its sign.  The exponent range of binary64 (2^-1074 to   *)
(* 2^1023) is never left by values built from u64 inputs with one power    *)
(* and a few products, so e is unbounded here.                             *)
(***************************************************************************)
MantBits == 53

NaN == [k |-> "nan", s |-> 0, m |-> <<>>, e |-> 0]
Inf(s) == [k |-> "inf", s |-> s, m |-> <<>>, e |-> 0]
FZero(s) == [k |-> "fin", s |-> s, m |-> <<>>, e |-> 0]
Fin(s, m, e) == [k |-> "fin", s |-> s, m |-> m, e |-> e]

IsNaN(f) == f.k = "nan"
IsInf(f) == f.k = "inf"
IsZero(f) == f.k = "fin" /\ f.m = <<>>
Xor(s, t) == (s + t) % 2
FNeg(f) == IF IsNaN(f) THEN f ELSE [f EXCEPT !.s = 1 - f.s]

(***************************************************************************)
(* The float whose magnitude is n * 2^e0, or when sticky a little more     *)
(* than that (less than one unit of n more), rounded to MantBits bits:     *)
(* mode "near" rounds to nearest, ties to even (every IEEE operation),     *)
(* "down" truncates and "up" rounds away from zero (the two neighbours of  *)
(* an inexact value).  A sticky n has at least MantBits + 2 bits.          *)
(***************************************************************************)
Bit(a, k) == (Limb(a, k \div LimbBits + 1) \div 2^(k % LimbBits)) % 2

Normal(s, m, e) == IF BitLen(m) > MantBits THEN Fin(s, ShR(m, 1), e + 1) ELSE Fin(s, m, e)

RoundBits(s, n, e0, sticky, mode) ==
  IF n = <<>> THEN FZero(s)
  ELSE IF BitLen(n) <= MantBits
    THEN Fin(s, ShL(n, MantBits - BitLen(n)), e0 - (MantBits - BitLen(n)))
  ELSE LET drop == BitLen(n) - MantBits
           q == ShR(n, drop)
           half == Bit(n, drop - 1) = 1
           rest == sticky \/ LowBitsSet(n, drop - 1)
           up == CASE mode = "near" -> half /\ (rest \/ IsOdd(q))
                   [] mode = "up" -> half \/ rest
                   [] OTHER -> FALSE
       IN Normal(s, IF up THEN BigAdd(q, One) ELSE q, e0 + drop)

\* the natural m * 2^(e - lo) for a finite float and lo <= e
Aligned(f, lo) == IF f.m = <<>> THEN <<>> ELSE ShL(f.m, f.e - lo)

\* the sum of two finite non-zero floats; an operand more than MantBits + 2
\* binades below the other is less than a quarter of its last place
AddFinite(a, b) ==
  IF a.e - b.e > MantBits + 2 THEN a
  ELSE IF b.e - a.e > MantBits + 2 THEN b
  ELSE LET lo == Min(a.e, b.e)
           x == Aligned(a, lo)
           y == Aligned(b, lo)
           c == BigCmp(x, y)
       IN IF a.s = b.s THEN RoundBits(a.s, BigAdd(x, y), lo, FALSE, "near")
          ELSE IF c = 0 THEN FZero(0)
          ELSE IF c > 0 THEN RoundBits(a.s, BigSub(x, y), lo, FALSE, "near")
          ELSE RoundBits(b.s, BigSub(y, x), lo, FALSE, "near")

FAdd(a, b) ==
  IF IsNaN(a) \/ IsNaN(b) THEN NaN
  ELSE IF IsInf(a) THEN (IF IsInf(b) /\ a.s /= b.s THEN NaN ELSE a)
  ELSE IF IsInf(b) THEN b
  ELSE IF IsZero(a) /\ IsZero(b) THEN FZero(IF a.s = 1 /\ b.s = 1 THEN 1 ELSE 0)
  ELSE IF IsZero(a) THEN b
  ELSE IF IsZero(b) THEN a
  ELSE AddFinite(a, b)

FSub(a, b) == FAdd(a, FNeg(b))

FMul(a, b) ==
  IF IsNaN(a) \/ IsNaN(b) THEN NaN
  ELSE IF IsInf(a) \/ IsInf(b)
    THEN (IF IsZero(a) \/ IsZero(b) THEN NaN ELSE Inf(Xor(a.s, b.s)))
  ELSE RoundBits(Xor(a.s, b.s), BigMul(a.m, b.m), a.e + b.e, FALSE, "near")

FDiv(a, b) ==
  IF IsNaN(a) \/ IsNaN(b) THEN NaN
  ELSE IF IsInf(a) THEN (IF IsInf(b) THEN NaN ELSE Inf(Xor(a.s, b.s)))
  ELSE IF IsInf(b) THEN FZero(Xor(a.s, b.s))
  ELSE IF IsZero(b) THEN (IF IsZero(a) THEN NaN ELSE Inf(Xor(a.s, b.s)))
  ELSE IF IsZero(a) THEN FZero(Xor(a.s, b.s))
  ELSE The({RoundBits(Xor(a.s, b.s), qr.q, a.e - b.e - (MantBits + 2), qr.r /= <<>>, "near") :
              qr \in {BigDivMod(ShL(a.m, MantBits + 2), b.m)}})

\* -1, 0, 1 comparing the magnitudes of two finite floats
MagCmp(a, b) ==
  IF IsZero(a) \/ IsZero(b)
    THEN (IF IsZero(a) /\ IsZero(b) THEN 0 ELSE IF IsZero(a) THEN -1 ELSE 1)
  ELSE IF a.e /= b.e THEN (IF a.e < b.e THEN -1 ELSE 1)
  ELSE BigCmp(a.m, b.m)

FOne == RoundBits(0, One, 0, FALSE, "near")
FTwo == RoundBits(0, One, 1, FALSE, "near")
FHalf == RoundBits(0, One, -1, FALSE, "near")

\* floor of the square root, by Newton's iteration from above
RECURSIVE SqrtFrom(_, _)
SqrtFrom(n, g) ==
  The({IF BigGe(h, g) THEN g ELSE SqrtFrom(n, h) :
         h \in {ShR(BigAdd(g, BigDivMod(n, g).q), 1)}})

BigSqrt(n) == IF n = <<>> THEN <<>> ELSE SqrtFrom(n, ShL(One, (BitLen(n) + 1) \div 2))

\* the square of a finite float, rounded by mode
SquareRounded(f, mode) == RoundBits(0, BigMul(f.m, f.m), 2 * f.e, FALSE, mode)

\* the float nearest by mode to the square root of n * 2^(2 * e0), n of at
\* least 2 * (MantBits + 2) bits
SqrtOfScaled(n, e0, mode) ==
  The({RoundBits(0, r, e0, BigMul(r, r) /= n, mode) : r \in {BigSqrt(n)}})

\* the square root of a finite positive float, rounded by mode
SqrtRounded(f, mode) ==
  The({SqrtOfScaled(ShL(f.m, k), (f.e - k) \div 2, mode) :
         k \in {IF (f.e - (MantBits + 3)) % 2 = 0 THEN MantBits + 3 ELSE MantBits + 4}})

(***************************************************************************)
(* one_intro_calc.rs                                                       *)
(***************************************************************************)
PONE == Big(1000000000)

MAX_IN_RATIO == BigDivMod(PONE, Big(2)).q
MAX_OUT_RATIO == BigDivMod(PONE, Big(2)).q

U64Max == BigSub(ShL(One, 64), One)
U128Max == BigSub(ShL(One, 128), One)

\* Rust's Result: Ok(v) or Err(e)
Ok(v) == [ok |-> TRUE, v |-> v]
Err(e) == [ok |-> FALSE, err |-> e]


\* a faulty variant: narrows with `as u64`, which keeps the low 64 bits
proportional_truncating(amount, numerator, denominator) ==
  IF denominator = Zero THEN Ok(amount)
  ELSE The({Ok(BigSub(value, ShL(ShR(value, 64), 64))) :
              value \in {BigDivMod(BigMul(amount, numerator), denominator).q}})

proportional(amount, numerator, denominator) ==
  IF denominator = Zero THEN Ok(amount)
  ELSE The({IF BigGt(product, U128Max) THEN Err("CalculationFailure")
            ELSE The({IF BigGt(value, U64Max) THEN Err("CalculationFailure")
                      ELSE Ok(value) :
                        value \in {BigDivMod(product, denominator).q}}) :
              product \in {BigMul(amount, numerator)}})

value_from_shares(shares, total_value, total_shares) ==
  proportional(shares, total_value, total_shares)

\* safemath: `value as f64` rounds a u64 to the nearest float
u64_to_f64_unchecked(value) == RoundBits(0, value, 0, FALSE, "near")

\* safemath: floor or ceil, then `as u64`, which saturates and sends NaN to 0
f64_to_u64_rounded(value, rounding) ==
  IF IsNaN(value) \/ value.s = 1 THEN Zero
  ELSE IF IsInf(value) THEN U64Max
  ELSE IF value.e > 64 - MantBits THEN U64Max
  ELSE LET whole == IF value.e >= 0 THEN Aligned(value, 0) ELSE ShR(value.m, -value.e)
           frac == value.e < 0 /\ LowBitsSet(value.m, -value.e)
           r == IF rounding = "Ceiling" /\ frac THEN BigAdd(whole, One) ELSE whole
       IN IF BigGt(r, U64Max) THEN U64Max ELSE r

add(left, right) == FAdd(left, right)
sub(left, right) == FSub(left, right)
mul(left, right) == FMul(left, right)
div(left, right) == FDiv(left, right)


(***************************************************************************)
(* The state: the OneIntroAmm object (amm), the operation last applied and *)
(* its arguments (call), what it returned (ret), and the platform's libm   *)
(* (libm), which the build links and the program never changes.            *)
(***************************************************************************)
VARIABLES amm, call, ret, libm

vars == <<amm, call, ret, libm>>

(***************************************************************************)
(* safemath::pow is f64::powf, the platform's libm pow.  It is exact where *)
(* the result is representable and otherwise returns one of the two floats *)
(* next to the exact power; which one is the library's choice, recorded in *)
(* libm for squares and for square roots.  The exponents are the quotients *)
(* of the weights the model draws (0, 1 and 2).                            *)
(***************************************************************************)
pow(base, n) ==
  IF IsZero(n) \/ base = FOne THEN FOne
  ELSE IF IsNaN(n) \/ IsNaN(base) THEN NaN
  ELSE IF IsInf(n)
    THEN (IF IsInf(base) THEN Inf(0)
          ELSE LET c == MagCmp(base, FOne)
               IN IF c < 0 THEN FZero(0) ELSE IF c = 0 THEN FOne ELSE Inf(0))
  ELSE CASE n = FOne -> base
         [] n = FTwo -> IF IsInf(base) THEN Inf(0) ELSE SquareRounded(base, libm.square)
         [] n = FHalf -> IF IsInf(base) THEN Inf(0)
                         ELSE IF IsZero(base) THEN FZero(0)
                         ELSE IF base.s = 1 THEN NaN
                         ELSE SqrtRounded(base, libm.root)

\* calc_out_given_in with the result rounded up instead of down
calc_out_given_in_ceiling(token_in_balance, token_in_weight, token_out_balance, token_out_weight, token_in_amount, swap_fee) ==
  LET token_in_balance_f64 == u64_to_f64_unchecked(token_in_balance)
      total_in_weight_f64 == u64_to_f64_unchecked(token_in_weight)
      token_out_balance_f64 == u64_to_f64_unchecked(token_out_balance)
      token_out_weight_f64 == u64_to_f64_unchecked(token_out_weight)
      token_in_amount_f64 == u64_to_f64_unchecked(token_in_amount)
      swap_fee_f64 == u64_to_f64_unchecked(swap_fee)
      weight_ratio == div(total_in_weight_f64, token_out_weight_f64)
      adjusted_in == mul(token_in_amount_f64,
                         sub(FOne, div(swap_fee_f64, u64_to_f64_unchecked(PONE))))
      y == div(token_in_balance_f64, add(token_in_balance_f64, adjusted_in))
      foo == pow(y, weight_ratio)
      bar == sub(FOne, foo)
      token_out_amount_f64 == mul(token_out_balance_f64, bar)
  IN Ok(f64_to_u64_rounded(token_out_amount_f64, "Ceiling"))

calc_out_given_in(token_in_balance, token_in_weight, token_out_balance, token_out_weight, token_in_amount, swap_fee) ==
  LET token_in_balance_f64 == u64_to_f64_unchecked(token_in_balance)
      total_in_weight_f64 == u64_to_f64_unchecked(token_in_weight)
      token_out_balance_f64 == u64_to_f64_unchecked(token_out_balance)
      token_out_weight_f64 == u64_to_f64_unchecked(token_out_weight)
      token_in_amount_f64 == u64_to_f64_unchecked(token_in_amount)
      swap_fee_f64 == u64_to_f64_unchecked(swap_fee)
      weight_ratio == div(total_in_weight_f64, token_out_weight_f64)
      adjusted_in == mul(token_in_amount_f64,
                         sub(FOne, div(swap_fee_f64, u64_to_f64_unchecked(PONE))))
      y == div(token_in_balance_f64, add(token_in_balance_f64, adjusted_in))
      foo == pow(y, weight_ratio)
      bar == sub(FOne, foo)
      token_out_amount_f64 == mul(token_out_balance_f64, bar)
  IN Ok(f64_to_u64_rounded(token_out_amount_f64, "Floor"))

calc_in_given_out(token_in_balance, token_in_weight, token_out_balance, token_out_weight, token_out_amount, swap_fee) ==
  LET token_in_balance_f64 == u64_to_f64_unchecked(token_in_balance)
      total_in_weight_f64 == u64_to_f64_unchecked(token_in_weight)
      token_out_balance_f64 == u64_to_f64_unchecked(token_out_balance)
      token_out_weight_f64 == u64_to_f64_unchecked(token_out_weight)
      token_out_amount_f64 == u64_to_f64_unchecked(token_out_amount)
      swap_fee_f64 == u64_to_f64_unchecked(swap_fee)
      weight_ratio == div(token_out_weight_f64, total_in_weight_f64)
      diff == sub(token_out_balance_f64, token_out_amount_f64)
      y == div(token_out_balance_f64, diff)
      foo == sub(pow(y, weight_ratio), FOne)
      token_in_amount_f64 ==
        div(mul(token_in_balance_f64, foo),
            sub(FOne, div(swap_fee_f64, u64_to_f64_unchecked(PONE))))
  IN Ok(f64_to_u64_rounded(token_in_amount_f64, "Ceiling"))

(***************************************************************************)
(* one_intro_amm.rs: the two swap modes                                    *)
(***************************************************************************)
\* u64::checked_sub(..).context(msg): the difference, or an error with msg
checked_sub(left, right, msg) ==
  IF BigLt(left, right) THEN Err(msg) ELSE Ok(BigSub(left, right))

\* a faulty variant: the fee is added to the amount instead of taken from it
exact_in_fee_step_adding(token_in_amount, swap_fee_ratio) ==
  The({IF ~swap_fee_amount.ok THEN swap_fee_amount
       ELSE Ok(<<swap_fee_amount.v, BigAdd(token_in_amount, swap_fee_amount.v)>>) :
         swap_fee_amount \in {value_from_shares(swap_fee_ratio, token_in_amount, PONE)}})

\* the fee step of exact-in: <<swap_fee_amount, adjusted_token_in_amount>>
exact_in_fee_step(token_in_amount, swap_fee_ratio) ==
  The({IF ~swap_fee_amount.ok THEN swap_fee_amount
       ELSE The({IF ~adjusted_token_in_amount.ok THEN adjusted_token_in_amount
                 ELSE Ok(<<swap_fee_amount.v, adjusted_token_in_amount.v>>) :
                   adjusted_token_in_amount \in
                     {checked_sub(token_in_amount, swap_fee_amount.v,
                                  "token_in_amount underflow")}}) :
         swap_fee_amount \in {value_from_shares(swap_fee_ratio, token_in_amount, PONE)}})

\* a faulty variant: adds the fee on the net amount instead of dividing
gross_up_by_adding(temp_token_in_amount, net_ratio) ==
  The({IF ~swap_fee_amount.ok THEN swap_fee_amount
       ELSE Ok(<<BigAdd(temp_token_in_amount, swap_fee_amount.v), swap_fee_amount.v>>) :
         swap_fee_amount \in
           {value_from_shares(BigSub(PONE, net_ratio), temp_token_in_amount, PONE)}})

\* the rest of the gross-up once PONE - swap_fee_ratio is known
gross_up_by(temp_token_in_amount, net_ratio) ==
  The({IF ~token_in_amount.ok THEN token_in_amount
       ELSE The({IF ~swap_fee_amount.ok THEN swap_fee_amount
                 ELSE Ok(<<token_in_amount.v, swap_fee_amount.v>>) :
                   swap_fee_amount \in
                     {checked_sub(token_in_amount.v, temp_token_in_amount,
                                  "adjusted_token_in_amount underflow")}}) :
         token_in_amount \in {value_from_shares(PONE, temp_token_in_amount, net_ratio)}})

\* the gross-up of exact-out: <<token_in_amount, swap_fee_amount>>
exact_out_gross_up(temp_token_in_amount, swap_fee_ratio) ==
  The({IF ~net_ratio.ok THEN net_ratio
       ELSE gross_up_by(temp_token_in_amount, net_ratio.v) :
         net_ratio \in {checked_sub(PONE, swap_fee_ratio, "PONE underflow")}})

\* a faulty variant: an amount over the liquidity guard is refused
swap_exact_amount_in_rejecting(token_in_balance, token_in_weight, token_out_balance, token_out_weight, token_in_amount, swap_fee_ratio) ==
  The({IF ~max_token_in_amount.ok THEN max_token_in_amount
       ELSE IF BigGt(token_in_amount, max_token_in_amount.v)
         THEN Err("ValidationLiquidityTooBigTokenInAmount")
       ELSE IF ~fee.ok THEN fee
       ELSE The({IF ~token_out_amount.ok THEN token_out_amount
                 ELSE Ok(<<token_in_amount, token_out_amount.v, fee.v[1], FALSE>>) :
                   token_out_amount \in
                     {calc_out_given_in(token_in_balance, token_in_weight, token_out_balance,
                                        token_out_weight, fee.v[2], Zero)}}) :
         max_token_in_amount \in {value_from_shares(MAX_IN_RATIO, token_in_balance, PONE)},
         fee \in {exact_in_fee_step(token_in_amount, swap_fee_ratio)}})

\* Ok(<<in_amount, out_amount, fee_amount, not_enough_liquidity>>) or an error
swap_exact_amount_in(token_in_balance, token_in_weight, token_out_balance, token_out_weight, token_in_amount, swap_fee_ratio) ==
  The({IF ~max_token_in_amount.ok THEN max_token_in_amount
       ELSE IF ~fee.ok THEN fee
       ELSE The({IF ~token_out_amount.ok THEN token_out_amount
                 ELSE Ok(<<token_in_amount, token_out_amount.v, fee.v[1],
                           BigGt(token_in_amount, max_token_in_amount.v)>>) :
                   token_out_amount \in
                     {calc_out_given_in(token_in_balance, token_in_weight, token_out_balance,
                                        token_out_weight, fee.v[2], Zero)}}) :
         max_token_in_amount \in {value_from_shares(MAX_IN_RATIO, token_in_balance, PONE)},
         fee \in {exact_in_fee_step(token_in_amount, swap_fee_ratio)}})

swap_exact_amount_out(token_in_balance, token_in_weight, token_out_balance, token_out_weight, token_out_amount, swap_fee_ratio) ==
  The({IF ~max_token_out_amount.ok THEN max_token_out_amount
       ELSE IF ~temp_token_in_amount.ok THEN temp_token_in_amount
       ELSE The({IF ~gross.ok THEN gross
                 ELSE Ok(<<gross.v[1], token_out_amount, gross.v[2],
                           BigGt(token_out_amount, max_token_out_amount.v)>>) :
                   gross \in {exact_out_gross_up(temp_token_in_amount.v, swap_fee_ratio)}}) :
         max_token_out_amount \in {value_from_shares(MAX_OUT_RATIO, token_out_balance, PONE)},
         temp_token_in_amount \in
           {calc_in_given_out(token_in_balance, token_in_weight, token_out_balance,
                              token_out_weight, token_out_amount, Zero)}})

(***************************************************************************)
(* one_intro_state.rs.  A Pubkey is a string.  Account data is a sequence  *)
(* of cells: the bytes of the 8-byte Anchor discriminator first, one cell  *)
(* each, then the Borsh encoding of a PoolState, one cell for each field   *)
(* in declaration order.  Data cut inside a field ends before its cell.    *)
(***************************************************************************)
MAX_TOKEN_COUNT == 4

DefaultPubkey == "11111111111111111111111111111111"

TokenRecord(mint_key, account_key, balance, weight) ==
  [mint_key |-> mint_key, account_key |-> account_key, balance |-> balance, weight |-> weight]

EmptyRecord == TokenRecord(DefaultPubkey, DefaultPubkey, Zero, Zero)

\* the cells of one TokenRecord
RecordCells(r) == <<r.mint_key, r.account_key, r.balance, r.weight>>

RECURSIVE ArrayCells(_, _)
ArrayCells(array, i) ==
  IF i > Len(array) THEN <<>> ELSE RecordCells(array[i]) \o ArrayCells(array, i + 1)

\* AnchorSerialize for PoolState
PoolStateCells(state) ==
  <<state.pool_auth_pda_key, state.pool_auth_pda_bump, state.pool_lp_mint_key,
    state.pool_lp_virtual_supply, state.pool_token_count>>
  \o ArrayCells(state.pool_token_array, 1)
  \o <<state.pool_token_total_weight, state.pool_swap_fee_ratio>>

\* the Anchor discriminator in front of the PoolState: data[8..]
DiscriminatorLen == 8

PoolStateLen == 5 + 4 * MAX_TOKEN_COUNT + 2

\* PoolState::deserialize: reads the fields in order from the front of the
\* cells and leaves what follows them unread
deserialize(cells) ==
  IF Len(cells) < PoolStateLen THEN Err("io error: unexpected end of input")
  ELSE Ok([pool_auth_pda_key |-> cells[1],
           pool_auth_pda_bump |-> cells[2],
           pool_lp_mint_key |-> cells[3],
           pool_lp_virtual_supply |-> cells[4],
           pool_token_count |-> cells[5],
           pool_token_array |->
             [i \in 1..MAX_TOKEN_COUNT |->
                TokenRecord(cells[4 * i + 2], cells[4 * i + 3], cells[4 * i + 4], cells[4 * i + 5])],
           pool_token_total_weight |-> cells[4 * MAX_TOKEN_COUNT + 6],
           pool_swap_fee_ratio |-> cells[4 * MAX_TOKEN_COUNT + 7]])

\* a panic unwinds out of the operation; it is not a returned error
Panic(msg) == [ok |-> FALSE, panic |-> msg]

\* PoolState::deserialize(&mut &data[8..]): the slice panics on short data
deserialize_account_data(data) ==
  IF Len(data) < DiscriminatorLen
    THEN Panic("range start index 8 out of range for slice")
  ELSE deserialize(SubSeq(data, DiscriminatorLen + 1, Len(data)))

(***************************************************************************)
(* one_intro_amm.rs: the OneIntroAmm object                                *)
(***************************************************************************)
ONE_INTRO_PROGRAM_ID == "DEXYosS6oEGvk8uCDayvwEZz4qEyDJRf9nFgYCaqPMTm"
ONE_INTRO_METADATA_STATE == "5nmAbnjJfW1skrPvYjLTBNdhoKzJfznnbvDcM8G2U7Ki"
ONE_INTRO_TOKEN_AUTH_PDA == "ATowQwFzdJBJ9VFSfoNKmuB8GiSeo8foM5vRriwmKmFB"
SplTokenId == "TokenkegQfeZyiNwAJbNbGKPFXCWuBvf9Ss623VQ5DA"

\* the address derived from a wallet and a mint
get_associated_token_address(wallet, mint) == <<"ata", wallet, mint>>

from_keyed_account(keyed_account) ==
  The({IF ~state.ok THEN state
       ELSE Ok([key |-> keyed_account.key,
                program_id |-> keyed_account.account.owner,
                state |-> state.v]) :
         state \in {deserialize_account_data(keyed_account.account.data)}})

get_reserve_mints(self) ==
  SelectSeq([i \in 1..MAX_TOKEN_COUNT |-> self.state.pool_token_array[i].mint_key],
            LAMBDA v : v /= DefaultPubkey)

get_accounts_to_update(self) == <<self.key>>

\* update: the result, and the object afterwards
update(self, account_map) ==
  IF self.key \notin DOMAIN account_map
    THEN [ret |-> Err("Pool state not found."), self |-> self]
  ELSE The({IF ~state.ok THEN [ret |-> state, self |-> self]
            ELSE [ret |-> Ok(<<>>), self |-> [self EXCEPT !.state = state.v]] :
              state \in {deserialize_account_data(account_map[self.key].data)}})

\* quote, lines 82-91: the input and output legs for an input mint
quote_legs(self, input_mint) ==
  LET record_0 == self.state.pool_token_array[1]
      record_1 == self.state.pool_token_array[2]
  IN IF input_mint = self.state.pool_token_array[1].mint_key
       THEN [token_in_balance |-> record_0.balance, token_out_balance |-> record_1.balance,
             token_in_weight |-> record_0.weight, token_out_weight |-> record_1.weight]
       ELSE [token_in_balance |-> record_1.balance, token_out_balance |-> record_0.balance,
             token_in_weight |-> record_1.weight, token_out_weight |-> record_0.weight]

\* rust_decimal's Decimal::new(num, scale): num * 10^-scale.  The pools drawn
\* keep swap_fee_ratio * 100 inside an i64.
Decimal_new(num, scale) == [num |-> num, scale |-> scale]

(***************************************************************************)
(* quote.  The two checks `if quote_params.amount <= 0 { Err(..) }` (lines *)
(* 78-80) and `if out_amount <= 0 { Err(..) }` (lines 116-118) build an    *)
(* error value and neither return it nor pass it to `?`, so control goes   *)
(* on past both; the variants they name are not declared in ErrorCode.     *)
(* Only the swap's own error leaves quote early.                           *)
(***************************************************************************)
quote(self, quote_params) ==
  The({IF ~swapped.ok THEN swapped
       ELSE Ok([in_amount |-> swapped.v[1],
                out_amount |-> swapped.v[2],
                fee_amount |-> swapped.v[3],
                fee_mint |-> quote_params.input_mint,
                fee_pct |-> Decimal_new(BigMul(self.state.pool_swap_fee_ratio, Big(100)), 9),
                not_enough_liquidity |-> swapped.v[4]]) :
         swapped \in
           {IF quote_params.swap_mode = "ExactIn"
              THEN swap_exact_amount_in(
                     quote_legs(self, quote_params.input_mint).token_in_balance,
                     quote_legs(self, quote_params.input_mint).token_in_weight,
                     quote_legs(self, quote_params.input_mint).token_out_balance,
                     quote_legs(self, quote_params.input_mint).token_out_weight,
                     quote_params.amount, self.state.pool_swap_fee_ratio)
              ELSE swap_exact_amount_out(
                     quote_legs(self, quote_params.input_mint).token_in_balance,
                     quote_legs(self, quote_params.input_mint).token_in_weight,
                     quote_legs(self, quote_params.input_mint).token_out_balance,
                     quote_legs(self, quote_params.input_mint).token_out_weight,
                     quote_params.amount, self.state.pool_swap_fee_ratio)}})

\* get_swap_and_account_metas, lines 132-140: the pool's two token accounts
swap_legs(self, source_mint) ==
  LET record_0 == self.state.pool_token_array[1]
      record_1 == self.state.pool_token_array[2]
  IN IF source_mint = record_0.mint_key
       THEN [pool_token_in_account |-> record_0.account_key,
             pool_token_out_account |-> record_1.account_key]
       ELSE [pool_token_in_account |-> record_1.account_key,
             pool_token_out_account |-> record_0.account_key]

AccountMeta_new(pubkey, is_signer) ==
  [pubkey |-> pubkey, is_signer |-> is_signer, is_writable |-> TRUE]

AccountMeta_new_readonly(pubkey, is_signer) ==
  [pubkey |-> pubkey, is_signer |-> is_signer, is_writable |-> FALSE]

get_swap_and_account_metas(self, swap_params) ==
  LET legs == swap_legs(self, swap_params.source_mint)
      user == swap_params.token_transfer_authority
      ata_metadata_swap_fee ==
        get_associated_token_address(ONE_INTRO_TOKEN_AUTH_PDA, swap_params.source_mint)
  IN Ok([swap |-> "TokenSwap",
         account_metas |->
           <<AccountMeta_new_readonly(ONE_INTRO_METADATA_STATE, FALSE),
             AccountMeta_new(self.key, FALSE),
             AccountMeta_new_readonly(self.state.pool_auth_pda_key, FALSE),
             AccountMeta_new(legs.pool_token_in_account, FALSE),
             AccountMeta_new(legs.pool_token_out_account, FALSE),
             AccountMeta_new(user, TRUE),
             AccountMeta_new(swap_params.source_token_account, FALSE),
             AccountMeta_new(swap_params.destination_token_account, FALSE),
             AccountMeta_new(ata_metadata_swap_fee, FALSE),
             AccountMeta_new(self.key, FALSE),
             AccountMeta_new_readonly(SplTokenId, FALSE)>>])

(***************************************************************************)
(* What the operations are applied to.                                     *)
(***************************************************************************)
LibmRoundings == {"down", "up"}
Libms == [square : LibmRoundings, root : LibmRoundings]

NoCall == [op |-> "none"]
NoRet == [ok |-> FALSE, pending |-> TRUE]
IsErr(r) == ~r.ok /\ "err" \in DOMAIN r
IsPanic(r) == ~r.ok /\ "panic" \in DOMAIN r

Million == Big(1000000)
FeeThirtyBps == Big(3000000)

PoolKey == "poolState"

PoolTwo ==
  [pool_auth_pda_key |-> "poolAuthPda", pool_auth_pda_bump |-> Big(254),
   pool_lp_mint_key |-> "lpMint", pool_lp_virtual_supply |-> Million,
   pool_token_count |-> Big(2),
   pool_token_array |->
     <<TokenRecord("mintA", "vaultA", Million, One),
       TokenRecord("mintB", "vaultB", Big(2000000), One),
       EmptyRecord, EmptyRecord>>,
   pool_token_total_weight |-> Big(2), pool_swap_fee_ratio |-> FeeThirtyBps]

PoolThree ==
  [pool_auth_pda_key |-> "poolAuthPda", pool_auth_pda_bump |-> Big(254),
   pool_lp_mint_key |-> "lpMint", pool_lp_virtual_supply |-> Million,
   pool_token_count |-> Big(3),
   pool_token_array |->
     <<TokenRecord("mintA", "vaultA", Million, One),
       TokenRecord("mintB", "vaultB", Big(2000000), Big(2)),
       TokenRecord("mintC", "vaultC", Big(500000), One),
       EmptyRecord>>,
   pool_token_total_weight |-> Big(4), pool_swap_fee_ratio |-> FeeThirtyBps]

\* a snapshot that shares no field with PoolTwo
PoolMoved ==
  [pool_auth_pda_key |-> "poolAuthPda2", pool_auth_pda_bump |-> Big(253),
   pool_lp_mint_key |-> "lpMint2", pool_lp_virtual_supply |-> Big(7000000),
   pool_token_count |-> Big(4),
   pool_token_array |->
     <<TokenRecord("mintB", "vaultB2", Big(10), Big(2)),
       TokenRecord("mintC", "vaultC2", Big(100), Big(2)),
       TokenRecord("mintA", "vaultA2", Big(3000000), Big(2)),
       TokenRecord("mintD", "vaultD2", Big(5), Big(2))>>,
   pool_token_total_weight |-> Big(8), pool_swap_fee_ratio |-> Zero]

Snapshots == {PoolTwo, PoolThree, PoolMoved}

Discriminator == [i \in 1..DiscriminatorLen |-> 240 + i]

AccountData(state) == Discriminator \o PoolStateCells(state)

Account(data) == [owner |-> ONE_INTRO_PROGRAM_ID, data |-> data]

\* whole account data, data with bytes after the PoolState, and data cut short
DataLens == {0, DiscriminatorLen - 1, DiscriminatorLen, DiscriminatorLen + 1,
             DiscriminatorLen + PoolStateLen - 1, DiscriminatorLen + PoolStateLen}

Datas ==
  {SubSeq(AccountData(state), 1, n) : state \in Snapshots, n \in DataLens}
  \cup {AccountData(state) \o <<0>> : state \in Snapshots}

AccountMaps ==
  {[k \in {PoolKey} |-> Account(data)] : data \in Datas}
  \cup {[k \in {"otherPool"} |-> Account(AccountData(PoolMoved))], <<>>}

Mints == {"mintA", "mintB", "mintC"}
SwapModes == {"ExactIn", "ExactOut"}
QuoteAmounts == {Zero, One, Big(1000), Big(600000)}

QuoteParams ==
  [input_mint : Mints, output_mint : Mints, amount : QuoteAmounts, swap_mode : SwapModes]

SwapParams ==
  [source_mint : Mints, destination_mint : Mints,
   source_token_account : {"userIn"}, destination_token_account : {"userOut"},
   token_transfer_authority : {"user"}]

(***************************************************************************)
(* The OneIntroAmm object: built from a keyed account, then any of its     *)
(* operations in any order.                                                *)
(***************************************************************************)
Init ==
  /\ \E state \in {PoolTwo, PoolThree} :
       amm = from_keyed_account([key |-> PoolKey, account |-> Account(AccountData(state))]).v
  /\ call = NoCall
  /\ ret = NoRet
  /\ libm \in {l \in Libms : l.square = l.root}

Update ==
  \E account_map \in AccountMaps :
    /\ amm' = update(amm, account_map).self
    /\ call' = [op |-> "update", account_map |-> account_map]
    /\ ret' = update(amm, account_map).ret
    /\ UNCHANGED libm

Quote ==
  \E quote_params \in QuoteParams :
    /\ quote_params.input_mint /= quote_params.output_mint
    /\ call' = [op |-> "quote", quote_params |-> quote_params]
    /\ ret' = quote(amm, quote_params)
    /\ UNCHANGED <<amm, libm>>

GetReserveMints ==
  /\ call' = [op |-> "get_reserve_mints"]
  /\ ret' = Ok(get_reserve_mints(amm))
  /\ UNCHANGED <<amm, libm>>

GetAccountsToUpdate ==
  /\ call' = [op |-> "get_accounts_to_update"]
  /\ ret' = Ok(get_accounts_to_update(amm))
  /\ UNCHANGED <<amm, libm>>

GetSwapAndAccountMetas ==
  \E swap_params \in SwapParams :
    /\ swap_params.source_mint /= swap_params.destination_mint
    /\ call' = [op |-> "get_swap_and_account_metas", swap_params |-> swap_params]
    /\ ret' = get_swap_and_account_metas(amm, swap_params)
    /\ UNCHANGED <<amm, libm>>

Next ==
  \/ Update
  \/ Quote
  \/ GetReserveMints
  \/ GetAccountsToUpdate
  \/ GetSwapAndAccountMetas

Spec == Init /\ [][Next]_vars

(***************************************************************************)
(* The integer helpers on their own: proportional, value_from_shares, the  *)
(* exact-out gross-up and the exact-in fee step, the last one also applied *)
(* to the amount the gross-up has just produced.                           *)
(***************************************************************************)
MaxMath == 3

NoAmm == "none"
LibmNearest == [square |-> "near", root |-> "near"]

MathValues ==
  {Big(i) : i \in 0..MaxMath}
  \cup {BigSub(PONE, One), PONE, BigAdd(PONE, One), ShL(One, 32), ShL(One, 63),
        BigSub(U64Max, One), U64Max}

FeeRatios ==
  {Zero, One, FeeThirtyBps, MAX_IN_RATIO, BigSub(PONE, One), PONE, BigAdd(PONE, One)}

InitMath ==
  /\ amm = NoAmm
  /\ call = NoCall
  /\ ret = NoRet
  /\ libm = LibmNearest

Proportional ==
  /\ call.op = "none"
  /\ \E amount \in MathValues, numerator \in MathValues, denominator \in MathValues :
       /\ call' = [op |-> "proportional", amount |-> amount, numerator |-> numerator,
                   denominator |-> denominator]
       /\ ret' = proportional(amount, numerator, denominator)
  /\ UNCHANGED <<amm, libm>>

ValueFromShares ==
  /\ call.op = "none"
  /\ \E shares \in MathValues, total_value \in MathValues, total_shares \in MathValues :
       /\ call' = [op |-> "value_from_shares", amount |-> shares, numerator |-> total_value,
                   denominator |-> total_shares]
       /\ ret' = value_from_shares(shares, total_value, total_shares)
  /\ UNCHANGED <<amm, libm>>

ExactOutGrossUp ==
  /\ call.op = "none"
  /\ \E temp_token_in_amount \in MathValues, swap_fee_ratio \in FeeRatios :
       /\ call' = [op |-> "exact_out_gross_up", temp_token_in_amount |-> temp_token_in_amount,
                   swap_fee_ratio |-> swap_fee_ratio]
       /\ ret' = exact_out_gross_up(temp_token_in_amount, swap_fee_ratio)
  /\ UNCHANGED <<amm, libm>>

ExactInFeeStep ==
  /\ call.op = "none"
  /\ \E token_in_amount \in MathValues, swap_fee_ratio \in FeeRatios :
       /\ call' = [op |-> "exact_in_fee_step", token_in_amount |-> token_in_amount,
                   swap_fee_ratio |-> swap_fee_ratio]
       /\ ret' = exact_in_fee_step(token_in_amount, swap_fee_ratio)
  /\ UNCHANGED <<amm, libm>>

\* the exact-out token_in_amount handed to the exact-in fee step
FeeStepAfterGrossUp ==
  /\ call.op = "exact_out_gross_up"
  /\ ret.ok
  /\ call' = [op |-> "fee_step_after_gross_up", token_in_amount |-> ret.v[1],
              swap_fee_ratio |-> call.swap_fee_ratio,
              temp_token_in_amount |-> call.temp_token_in_amount]
  /\ ret' = exact_in_fee_step(ret.v[1], call.swap_fee_ratio)
  /\ UNCHANGED <<amm, libm>>

NextMath ==
  \/ Proportional
  \/ ValueFromShares
  \/ ExactOutGrossUp
  \/ ExactInFeeStep
  \/ FeeStepAfterGrossUp

SpecMath == InitMath /\ [][NextMath]_vars

(***************************************************************************)
(* The two curve functions on their own, and the round trip: the output of *)
(* calc_out_given_in handed to calc_in_given_out on the same legs.         *)
(***************************************************************************)
MaxBalance == 2
MaxAmount == 2

\* 10^12, a reserve of a million tokens of six decimals
Trillion == Dec(<<1000, 0>>)

CurveAmounts ==
  {Big(i) : i \in 0..MaxAmount}
  \cup {Big(10), Dec(<<200, 290880223>>), Dec(<<1942, 349360578>>)}

WeightPairs == {<<One, One>>, <<One, Big(2)>>, <<Big(2), One>>}

SmallBalances == {Big(i) : i \in 1..MaxBalance} \cup {Big(6), Big(7), Big(100)}

Leg(bi, wi, bo, wo) ==
  [token_in_balance |-> bi, token_in_weight |-> wi,
   token_out_balance |-> bo, token_out_weight |-> wo]

\* small reserves under every weight ratio, and a large equally weighted pool,
\* whose power is the base itself
CurveLegs ==
  {Leg(bi, w[1], bo, w[2]) : bi \in SmallBalances, bo \in SmallBalances, w \in WeightPairs}
  \cup {Leg(Trillion, One, Trillion, One)}

InitCurve ==
  /\ amm = NoAmm
  /\ call = NoCall
  /\ ret = NoRet
  /\ libm \in Libms

CalcOutGivenIn ==
  /\ call.op = "none"
  /\ \E legs \in CurveLegs, token_in_amount \in CurveAmounts :
       /\ call' = [op |-> "calc_out_given_in", legs |-> legs, amount |-> token_in_amount]
       /\ ret' = calc_out_given_in(legs.token_in_balance, legs.token_in_weight,
                                   legs.token_out_balance, legs.token_out_weight,
                                   token_in_amount, Zero)
  /\ UNCHANGED <<amm, libm>>

CalcInGivenOut ==
  /\ call.op = "none"
  /\ \E legs \in CurveLegs, token_out_amount \in CurveAmounts :
       /\ call' = [op |-> "calc_in_given_out", legs |-> legs, amount |-> token_out_amount]
       /\ ret' = calc_in_given_out(legs.token_in_balance, legs.token_in_weight,
                                   legs.token_out_balance, legs.token_out_weight,
                                   token_out_amount, Zero)
  /\ UNCHANGED <<amm, libm>>

\* calc_in_given_out asked for the amount calc_out_given_in has just returned
RoundTrip ==
  /\ call.op = "calc_out_given_in"
  /\ ret.ok
  /\ call' = [op |-> "round_trip", legs |-> call.legs, amount |-> ret.v,
              token_in_amount |-> call.amount]
  /\ ret' = calc_in_given_out(call.legs.token_in_balance, call.legs.token_in_weight,
                              call.legs.token_out_balance, call.legs.token_out_weight,
                              ret.v, Zero)
  /\ UNCHANGED <<amm, libm>>

NextCurve ==
  \/ CalcOutGivenIn
  \/ CalcInGivenOut
  \/ RoundTrip

SpecCurve == InitCurve /\ [][NextCurve]_vars

(***************************************************************************)
(* The two swap modes on their own.  Each call uses one power, so one      *)
(* rounding for both kinds of power covers the library's choices.          *)
(***************************************************************************)
MaxSwapAmount == 4

\* <<token_in_balance, token_out_balance>>, the last with odd reserves
SwapBalances ==
  {<<Million, Big(2000000)>>, <<Big(100), Big(10)>>, <<Big(7), Big(5)>>}

SwapLegs ==
  {Leg(b[1], w[1], b[2], w[2]) : b \in SwapBalances, w \in WeightPairs}

SwapAmounts ==
  {Big(i) : i \in 0..MaxSwapAmount}
  \cup {Big(1000), Big(400000), Big(500000), Big(600000), Big(2000000)}

InitSwap ==
  /\ amm = NoAmm
  /\ call = NoCall
  /\ ret = NoRet
  /\ libm \in {l \in Libms : l.square = l.root}

SwapExactAmountIn ==
  /\ call.op = "none"
  /\ \E legs \in SwapLegs, token_in_amount \in SwapAmounts, swap_fee_ratio \in FeeRatios :
       /\ call' = [op |-> "swap_exact_amount_in", legs |-> legs, amount |-> token_in_amount,
                   swap_fee_ratio |-> swap_fee_ratio]
       /\ ret' = swap_exact_amount_in(legs.token_in_balance, legs.token_in_weight,
                                      legs.token_out_balance, legs.token_out_weight,
                                      token_in_amount, swap_fee_ratio)
  /\ UNCHANGED <<amm, libm>>

SwapExactAmountOut ==
  /\ call.op = "none"
  /\ \E legs \in SwapLegs, token_out_amount \in SwapAmounts, swap_fee_ratio \in FeeRatios :
       /\ call' = [op |-> "swap_exact_amount_out", legs |-> legs, amount |-> token_out_amount,
                   swap_fee_ratio |-> swap_fee_ratio]
       /\ ret' = swap_exact_amount_out(legs.token_in_balance, legs.token_in_weight,
                                       legs.token_out_balance, legs.token_out_weight,
                                       token_out_amount, swap_fee_ratio)
  /\ UNCHANGED <<amm, libm>>

NextSwap ==
  \/ SwapExactAmountIn
  \/ SwapExactAmountOut

SpecSwap == InitSwap /\ [][NextSwap]_vars

(***************************************************************************)
(* Claims about the integer helpers, under SpecMath.                       *)
(***************************************************************************)
\* C4: proportional(amount, numerator, denominator), and value_from_shares
\* which forwards to it, returns amount unchanged when denominator = 0;
\* otherwise it returns exactly floor(amount * numerator / denominator)
\* when that quotient fits in 64 bits, and fails with CalculationFailure,
\* never a wrapped or truncated value, when it does not.
C4_ProportionalExact ==
  call.op \in {"proportional", "value_from_shares"} =>
    IF call.denominator = Zero THEN ret = Ok(call.amount)
    ELSE IF ret.ok
      THEN /\ BigLe(ret.v, U64Max)
           /\ BigLe(BigMul(ret.v, call.denominator), BigMul(call.amount, call.numerator))
           /\ BigLt(BigMul(call.amount, call.numerator),
                    BigMul(BigAdd(ret.v, One), call.denominator))
      ELSE /\ ret = Err("CalculationFailure")
           /\ BigGe(BigMul(call.amount, call.numerator),
                    BigMul(BigAdd(U64Max, One), call.denominator))

\* a quotient that is rounded down, and one that does not fit
C4_Witness ==
  /\ call.op = "proportional"
  /\ call.denominator /= Zero
  /\ ret.ok
  /\ ret.v /= Zero
  /\ BigLt(BigMul(ret.v, call.denominator), BigMul(call.amount, call.numerator))
  /\ ~proportional(U64Max, call.numerator, call.denominator).ok

\* C9: for every swap_fee_ratio below PONE the exact-out gross-up either
\* fails in proportional (the quotient does not fit) or returns an inAmount
\* that is at least preFeeIn, so the fee subtraction never underflows; and
\* the exact-in fee step applied to that inAmount succeeds with an adjusted
\* input equal to preFeeIn exactly.
C9_GrossUpConsistent ==
  /\ (call.op = "exact_out_gross_up" /\ BigLt(call.swap_fee_ratio, PONE)) =>
       IF ret.ok
         THEN /\ BigGe(ret.v[1], call.temp_token_in_amount)
              /\ BigAdd(call.temp_token_in_amount, ret.v[2]) = ret.v[1]
         ELSE /\ ret = Err("CalculationFailure")
              /\ ~proportional(PONE, call.temp_token_in_amount,
                               BigSub(PONE, call.swap_fee_ratio)).ok
  /\ (call.op = "fee_step_after_gross_up" /\ BigLt(call.swap_fee_ratio, PONE)) =>
       /\ ret.ok
       /\ ret.v[2] = call.temp_token_in_amount
       /\ BigAdd(ret.v[1], ret.v[2]) = call.token_in_amount

\* a grossed-up amount with a fee in it, fed back through the fee step
C9_Witness ==
  /\ call.op = "fee_step_after_gross_up"
  /\ call.swap_fee_ratio = FeeThirtyBps
  /\ call.temp_token_in_amount = PONE
  /\ ret.ok
  /\ ret.v[1] /= Zero
  /\ ret.v[2] = PONE

(***************************************************************************)
(* Claims about the curve functions, under SpecCurve.                      *)
(***************************************************************************)
RoundTripLimit == 100

IsRoundTrip == call.op = "round_trip" /\ ret.ok

InRoundTripRange ==
  /\ BigLe(call.legs.token_in_balance, Big(RoundTripLimit))
  /\ BigLe(call.legs.token_out_balance, Big(RoundTripLimit))
  /\ BigLe(call.token_in_amount, Big(RoundTripLimit))

Square(x) == BigMul(x, x)

\* out <= bO * (1 - (bI / (bI + a))^(wI/wO))
OutNotAboveExact(bI, wI, bO, wO, a, out) ==
  CASE wI = wO ->
         BigLe(BigMul(out, BigAdd(bI, a)), BigMul(bO, a))
    [] wI = BigMul(Big(2), wO) ->
         BigLe(BigMul(out, Square(BigAdd(bI, a))),
               BigMul(bO, BigSub(Square(BigAdd(bI, a)), Square(bI))))
    [] wO = BigMul(Big(2), wI) ->
         /\ BigLe(out, bO)
         /\ BigLe(BigMul(Square(bO), bI),
                  BigMul(Square(BigSub(bO, out)), BigAdd(bI, a)))

\* in >= bI * ((bO / (bO - ao))^(wO/wI) - 1), for ao < bO
InNotBelowExact(bI, wI, bO, wO, ao, in) ==
  CASE wI = wO ->
         BigGe(BigMul(in, BigSub(bO, ao)), BigMul(bI, ao))
    [] wO = BigMul(Big(2), wI) ->
         BigGe(BigMul(in, Square(BigSub(bO, ao))),
               BigMul(bI, BigSub(Square(bO), Square(BigSub(bO, ao)))))
    [] wI = BigMul(Big(2), wO) ->
         BigGe(BigMul(Square(BigAdd(in, bI)), BigSub(bO, ao)),
               BigMul(Square(bI), bO))

\* C2 as stated: calc_out_given_in never returns more than the exact real
\* value, and calc_in_given_out, asked for less than the output reserve, never
\* returns less than the exact real value.
C2_RoundingDirection ==
  /\ (call.op = "calc_out_given_in" /\ ret.ok) =>
       OutNotAboveExact(call.legs.token_in_balance, call.legs.token_in_weight,
                        call.legs.token_out_balance, call.legs.token_out_weight,
                        call.amount, ret.v)
  /\ (/\ call.op = "calc_in_given_out"
      /\ ret.ok
      /\ BigLt(call.amount, call.legs.token_out_balance)) =>
       InNotBelowExact(call.legs.token_in_balance, call.legs.token_in_weight,
                       call.legs.token_out_balance, call.legs.token_out_weight,
                       call.amount, ret.v)

(***************************************************************************)
(* Claims about the two swap modes, under SpecSwap.                        *)
(***************************************************************************)
IsExactIn == call.op = "swap_exact_amount_in"
IsExactOut == call.op = "swap_exact_amount_out"

HalfOf(balance) == BigDivMod(balance, Big(2)).q

\* the call of the current state again, with another fee ratio
ExactInWithFee(f) ==
  swap_exact_amount_in(call.legs.token_in_balance, call.legs.token_in_weight,
                       call.legs.token_out_balance, call.legs.token_out_weight,
                       call.amount, f)

ExactOutWithFee(f) ==
  swap_exact_amount_out(call.legs.token_in_balance, call.legs.token_in_weight,
                        call.legs.token_out_balance, call.legs.token_out_weight,
                        call.amount, f)

\* C3: a successful exact-in result carries the flag amountIn > floor(balanceIn / 2),
\* a successful exact-out result the flag amountOut > floor(balanceOut / 2), and
\* the guard never makes a call fail: exact-in succeeds exactly when its fee step
\* does, and a failed exact-out call is a failed gross-up.
C3_GuardIsFlagOnly ==
  /\ IsExactIn =>
       /\ ret.ok = exact_in_fee_step(call.amount, call.swap_fee_ratio).ok
       /\ ret.ok => ret.v[4] = BigGt(call.amount, HalfOf(call.legs.token_in_balance))
  /\ IsExactOut =>
       /\ ret.ok => ret.v[4] = BigGt(call.amount, HalfOf(call.legs.token_out_balance))
       /\ ~ret.ok => ret.err \in {"PONE underflow", "CalculationFailure",
                                  "adjusted_token_in_amount underflow"}

\* exact-in of 600_000 on a reserve of 1_000_000: flagged, and a result
C3_Witness ==
  /\ IsExactIn
  /\ call.legs.token_in_balance = Million
  /\ call.amount = Big(600000)
  /\ ret.ok
  /\ ret.v[4]
  /\ ret.v[1] = Big(600000)

FeesBelow(f) == {f1 \in FeeRatios : BigLt(f1, f)}

\* C5 as stated: below PONE, a larger fee ratio gives a strictly smaller
\* exact-in amountOut and a strictly larger exact-out inAmount.
C5_FeeStrictlyMonotone ==
  /\ (IsExactIn /\ ret.ok /\ BigLt(call.swap_fee_ratio, PONE)) =>
       \A f1 \in FeesBelow(call.swap_fee_ratio) :
         ExactInWithFee(f1).ok => BigLt(ret.v[2], ExactInWithFee(f1).v[2])
  /\ (IsExactOut /\ ret.ok /\ BigLt(call.swap_fee_ratio, PONE)) =>
       \A f1 \in FeesBelow(call.swap_fee_ratio) :
         ExactOutWithFee(f1).ok => BigGt(ret.v[1], ExactOutWithFee(f1).v[1])

\* C5 amended: below PONE, a larger fee ratio never gives a larger exact-in
\* amountOut nor a smaller exact-out inAmount, whenever both calls succeed (for
\* unequal weights, under one direction of rounding of the power).
C5_FeeMonotone ==
  /\ (IsExactIn /\ ret.ok /\ BigLt(call.swap_fee_ratio, PONE)) =>
       \A f1 \in FeesBelow(call.swap_fee_ratio) :
         ExactInWithFee(f1).ok => BigLe(ret.v[2], ExactInWithFee(f1).v[2])
  /\ (IsExactOut /\ ret.ok /\ BigLt(call.swap_fee_ratio, PONE)) =>
       \A f1 \in FeesBelow(call.swap_fee_ratio) :
         ExactOutWithFee(f1).ok => BigGe(ret.v[1], ExactOutWithFee(f1).v[1])

\* a fee of 30 basis points that lowers the exact-in amountOut of 600_000
C5_Witness ==
  /\ IsExactIn
  /\ ret.ok
  /\ call.swap_fee_ratio = FeeThirtyBps
  /\ call.amount = Big(600000)
  /\ call.legs.token_in_balance = Million
  /\ BigLt(ret.v[2], ExactInWithFee(Zero).v[2])

\* C6 as stated: exact-out fails whenever swapFeeRatio >= PONE.
C6_ExactOutRejectsFullFee ==
  (IsExactOut /\ BigGe(call.swap_fee_ratio, PONE)) => IsErr(ret)

(***************************************************************************)
(* Claims about the OneIntroAmm object, under Spec.                        *)
(***************************************************************************)
IsQuote == call.op = "quote"

\* C7 as stated: quote never returns a Quote for a request of amount 0, nor a
\* Quote whose out_amount is 0, in either swap mode.
C7_QuoteRejectsZero ==
  (IsQuote /\ ret.ok) =>
    /\ call.quote_params.amount /= Zero
    /\ ret.v.out_amount /= Zero

\* the account map holds the pool's own key, with bytes that decode
Decodes(self, account_map) ==
  /\ self.key \in DOMAIN account_map
  /\ deserialize_account_data(account_map[self.key].data).ok

\* C8 as stated: an update whose account map lacks the pool's key, or holds
\* bytes that do not decode, returns an error and leaves the object as it was;
\* any other update succeeds and holds exactly the decoding of the bytes after
\* the 8-byte prefix, with key and program_id kept.
C8_UpdateAtomic ==
  [][call'.op = "update" =>
       IF Decodes(amm, call'.account_map)
         THEN /\ ret'.ok
              /\ amm'.state =
                   deserialize(SubSeq(call'.account_map[amm.key].data, DiscriminatorLen + 1,
                                      Len(call'.account_map[amm.key].data))).v
              /\ amm'.key = amm.key
              /\ amm'.program_id = amm.program_id
         ELSE /\ IsErr(ret')
              /\ amm' = amm]_vars

ReserveMints(self) ==
  {get_reserve_mints(self)[i] : i \in 1..Len(get_reserve_mints(self))}

\* the token record of a reserve mint
RecordOf(self, mint) ==
  self.state.pool_token_array[
    CHOOSE i \in 1..MAX_TOKEN_COUNT : self.state.pool_token_array[i].mint_key = mint]

\* C10 as stated: for every mint that get_reserve_mints returns, quote takes the
\* input balance and weight from the record of that mint and the output side
\* from another record, and get_swap_and_account_metas takes poolTokenInAccount
\* from the record of that mint.
C10_LegsFollowMint ==
  /\ (IsQuote /\ call.quote_params.input_mint \in ReserveMints(amm)) =>
       /\ quote_legs(amm, call.quote_params.input_mint).token_in_balance =
            RecordOf(amm, call.quote_params.input_mint).balance
       /\ quote_legs(amm, call.quote_params.input_mint).token_in_weight =
            RecordOf(amm, call.quote_params.input_mint).weight
       /\ \E i \in 1..MAX_TOKEN_COUNT :
            /\ amm.state.pool_token_array[i] /= RecordOf(amm, call.quote_params.input_mint)
            /\ quote_legs(amm, call.quote_params.input_mint).token_out_balance =
                 amm.state.pool_token_array[i].balance
  /\ (/\ call.op = "get_swap_and_account_metas"
      /\ call.swap_params.source_mint \in ReserveMints(amm)) =>
       swap_legs(amm, call.swap_params.source_mint).pool_token_in_account =
         RecordOf(amm, call.swap_params.source_mint).account_key

====
